---- MODULE Spec2Model ----
(***************************************************************************)
(* Energy-Trade dashboard (src/app.py): the upload -> clean -> analyse ->  *)
(* download -> chunked-submission pipeline of main(), the cleaning         *)
(* function clean_data and the submission loop send_data_in_chunks.        *)
(*                                                                         *)
(* Three specifications share the variables:                               *)
(*   Spec        one run of main() on an uploaded file;                    *)
(*   SpecClean   clean_data applied repeatedly to an arbitrary dataset;    *)
(*   SpecChunks  send_data_in_chunks on an arbitrary record list and       *)
(*               chunk_size >= 1.                                          *)
(***************************************************************************)
EXTENDS Integers, Sequences, FiniteSets, TLC

VARIABLES
    pc,             \* position of the run in main() / in the function under test
    uploaded_file,  \* what st.file_uploader returned: None or a file
    df,             \* the dataset in hand (process_uploaded_file's result), or None
    cleaned_data,   \* clean_data's result in main(), or None before it ran
    prev_df,        \* SpecClean: the dataset the last clean_data call was given
    passes,         \* SpecClean: number of clean_data calls made
    stage,          \* main(): number of analysis stages completed
    data,           \* send_data_in_chunks: the record list
    chunk_size,     \* send_data_in_chunks: chunk_size
    i,              \* send_data_in_chunks: loop index (0-based, as in the code)
    response,       \* send_post_request's return value for the chunk in flight
    posted,         \* POSTs issued: <<[index, chunk, http]>> in order of sending
    ui              \* notifications and widgets emitted by the run, in order

vars == <<pc, uploaded_file, df, cleaned_data, prev_df, passes, stage, data,
          chunk_size, i, response, posted, ui>>

(***************************************************************************)
(* Bounds of the model.                                                    *)
(***************************************************************************)
MaxRows == 3        \* SpecClean: rows of the dataset given to clean_data
MaxPasses == 2      \* SpecClean: clean_data calls in a row
MaxLen == 5         \* SpecChunks: length of the record list
MaxChunkSize == 3   \* SpecChunks: chunk_size ranges over 1..MaxChunkSize

None == [t |-> "None"]

(***************************************************************************)
(* Cell values.  A cell is missing (None / NaN), a number or a string.     *)
(* Numbers are exact rationals n/d in lowest terms with d > 0; strings are *)
(* sequences of one-character strings.  All cells have the same fields so  *)
(* that any two can be compared.                                           *)
(***************************************************************************)
RECURSIVE GCD(_, _)
GCD(a, b) == IF b = 0 THEN a ELSE GCD(b, a % b)

Abs(x) == IF x < 0 THEN -x ELSE x

Missing == [t |-> "nan", n |-> 0, d |-> 1, s |-> <<>>]
Num(n, d) ==
    LET g == GCD(Abs(n), d)
    IN  [t |-> "num", n |-> n \div g, d |-> d \div g, s |-> <<>>]
Str(s) == [t |-> "str", n |-> 0, d |-> 1, s |-> s]

IsMissing(v) == v.t = "nan"
IsNum(v) == v.t = "num"
IsStr(v) == v.t = "str"

(***************************************************************************)
(* pd.to_numeric on one string: a decimal literal  digits [ "." digits ]   *)
(* with at least one digit parses to its value, anything else does not.    *)
(***************************************************************************)
Digits == <<"0", "1", "2", "3", "4", "5", "6", "7", "8", "9">>

IsDigit(c) == \E k \in 1..10 : Digits[k] = c

DigitVal(c) == (CHOOSE k \in 1..10 : Digits[k] = c) - 1

RECURSIVE DigitsVal(_)
DigitsVal(ds) ==
    IF ds = <<>> THEN 0
    ELSE 10 * DigitsVal(SubSeq(ds, 1, Len(ds) - 1)) + DigitVal(ds[Len(ds)])

RECURSIVE Pow10(_)
Pow10(k) == IF k = 0 THEN 1 ELSE 10 * Pow10(k - 1)

DotPos(s) ==
    IF \E k \in 1..Len(s) : s[k] = "."
    THEN CHOOSE k \in 1..Len(s) : s[k] = "." /\ \A j \in 1..(k - 1) : s[j] # "."
    ELSE Len(s) + 1

IntPart(s) == SubSeq(s, 1, DotPos(s) - 1)
FracPart(s) == SubSeq(s, DotPos(s) + 1, Len(s))

Parseable(s) ==
    /\ \A k \in 1..Len(IntPart(s)) : IsDigit(IntPart(s)[k])
    /\ \A k \in 1..Len(FracPart(s)) : IsDigit(FracPart(s)[k])
    /\ Len(IntPart(s)) + Len(FracPart(s)) >= 1

ParseNum(s) ==
    Num(DigitsVal(IntPart(s)) * Pow10(Len(FracPart(s))) + DigitsVal(FracPart(s)),
        Pow10(Len(FracPart(s))))

(***************************************************************************)
(* pd.to_numeric(column, errors='ignore'): every value is converted, and   *)
(* if any value cannot be, the column is returned as it was.               *)
(***************************************************************************)
Coercible(v) == IsStr(v) => Parseable(v.s)

CoerceValue(v) == IF IsStr(v) THEN ParseNum(v.s) ELSE v

ToNumeric(col) ==
    IF \A k \in 1..Len(col) : Coercible(col[k])
    THEN [k \in 1..Len(col) |-> CoerceValue(col[k])]
    ELSE col

(***************************************************************************)
(* Datasets.  A DataFrame is [columns |-> set of names, rows |-> sequence  *)
(* of rows], a row being a function from the columns to cells.             *)
(***************************************************************************)
DataFrame(cols, rows) == [t |-> "DataFrame", columns |-> cols, rows |-> rows]

Column(rows, c) == [k \in 1..Len(rows) |-> rows[k][c]]

(* df.drop_duplicates(): a row equal on every column to an earlier row is  *)
(* dropped; the first occurrence and the order of the survivors are kept.  *)
RECURSIVE KeepFirst(_, _, _)
KeepFirst(rows, lo, hi) ==
    IF lo > hi THEN <<>>
    ELSE IF lo = hi
         THEN IF \E j \in 1..(lo - 1) : rows[j] = rows[lo]
              THEN <<>>
              ELSE <<rows[lo]>>
         ELSE LET mid == (lo + hi) \div 2
              IN  KeepFirst(rows, lo, mid) \o KeepFirst(rows, mid + 1, hi)

DropDuplicates(rows) == KeepFirst(rows, 1, Len(rows))

(* x.mean(): the arithmetic mean of the non-missing values, NaN if none.   *)
RatAdd(a, b) == Num(a.n * b.d + b.n * a.d, a.d * b.d)

RECURSIVE SumRange(_, _, _)
SumRange(col, lo, hi) ==
    IF lo > hi THEN Num(0, 1)
    ELSE IF lo = hi
         THEN IF IsNum(col[lo]) THEN col[lo] ELSE Num(0, 1)
         ELSE LET mid == (lo + hi) \div 2
              IN  RatAdd(SumRange(col, lo, mid), SumRange(col, mid + 1, hi))

CountPresent(col) == Cardinality({k \in 1..Len(col) : ~IsMissing(col[k])})

Mean(col) ==
    IF CountPresent(col) = 0
    THEN Missing
    ELSE LET total == SumRange(col, 1, Len(col))
         IN  Num(total.n, total.d * CountPresent(col))

(* Variant: the result of fillna is dropped, the column stays as it was.    *)
FillNa_Noop(col, value) == col

(* x.fillna(value): missing cells take value; fillna(NaN) changes nothing. *)
FillNa(col, value) ==
    [k \in 1..Len(col) |-> IF IsMissing(col[k]) THEN value ELSE col[k]]

(* df.select_dtypes(include='number'): the columns holding no string.      *)
IsNumericColumn(col) == \A k \in 1..Len(col) : ~IsStr(col[k])

FillNumeric(col) == IF IsNumericColumn(col) THEN FillNa(col, Mean(col)) ELSE col

(* clean_data(df) *)
clean_data(d) ==
    LET deduped == DropDuplicates(d.rows)
        filled  == [c \in d.columns |-> FillNumeric(ToNumeric(Column(deduped, c)))]
    IN  DataFrame(d.columns,
                  [k \in 1..Len(deduped) |-> [c \in d.columns |-> filled[c][k]]])

(***************************************************************************)
(* The user interface: what the run has shown, in order.                   *)
(***************************************************************************)
Note(kind, msg, n, of) == [kind |-> kind, msg |-> msg, n |-> n, of |-> of]

ErrorNote(msg) == Note("error", msg, 0, 0)
ChunkSuccess(n, of) == Note("success", "Chunk submitted successfully.", n, of)
ChunkFailure(n, of) == Note("error", "Failed to submit chunk.", n, of)
DownloadButton == Note("download_button", "Download Cleaned Data as CSV", 0, 0)
FinalNote == Note("success", "Application ran successfully!", 0, 0)

(***************************************************************************)
(* send_post_request.  The outcome of requests.post is a connection error,*)
(* a timeout, or a response with a status and a body.  A body is a JSON    *)
(* value (its kind and its length, or its value for a number or a          *)
(* boolean) or text that is not JSON.                                      *)
(***************************************************************************)
Json(kind, len) == [json |-> kind, len |-> len]

Bodies ==
    { Json("object", 1), Json("object", 0), Json("array", 0), Json("null", 0),
      Json("invalid", 0) }

Statuses == {200, 300, 404, 500}

HttpOutcomes ==
    [kind : {"response"}, status : Statuses, body : Bodies]
    \cup [kind : {"connection_error", "timeout"}, status : {0},
          body : {Json("invalid", 0)}]

(* response.raise_for_status(): HTTPError for a 4xx or 5xx status only.    *)
RaisesForStatus(status) == 400 <= status /\ status < 600

(* The except clause is taken: requests.post raised (ConnectionError,      *)
(* Timeout), raise_for_status raised (HTTPError), or response.json()       *)
(* raised (requests.exceptions.JSONDecodeError, a RequestException since   *)
(* requests 2.27); all are RequestException.                               *)
RequestFails(h) ==
    \/ h.kind # "response"
    \/ RaisesForStatus(h.status)
    \/ h.body.json = "invalid"

send_post_request(h) == IF RequestFails(h) THEN None ELSE h.body

(* Python truth value of send_post_request's result (`if response:`).      *)
Truthy(v) ==
    /\ v # None
    /\ v.json # "null"
    /\ v.len # 0

(***************************************************************************)
(* send_data_in_chunks.                                                    *)
(***************************************************************************)
(* Variant: the partial final chunk is not counted.                        *)
NumChunks_Floor(n, size) == n \div size

NumChunks(n, size) == n \div size + (IF n % size > 0 THEN 1 ELSE 0)

Min(a, b) == IF a < b THEN a ELSE b

(* data[lo:hi] of Python: 0-based, hi exclusive, clipped to the list.      *)
Slice(list, lo, hi) == SubSeq(list, Min(lo, Len(list)) + 1, Min(hi, Len(list)))

Chunk(list, size, k) == Slice(list, k * size, (k + 1) * size)

num_chunks == NumChunks(Len(data), chunk_size)

(* Variant: no break after a failed chunk.                                 *)
ContinuesAfter_Always(r) == TRUE

(* The loop goes on after a report exactly when the response was truthy;   *)
(* otherwise it breaks.                                                    *)
ContinuesAfter(r) == Truthy(r)

(* One iteration up to the return of send_post_request: the chunk is cut,  *)
(* POSTed, and the outcome turned into the return value; st.error on the   *)
(* except path.                                                            *)
SendChunk ==
    /\ pc = "send"
    /\ i < num_chunks
    /\ \E h \in HttpOutcomes :
        /\ posted' = Append(posted,
                            [index |-> i, chunk |-> Chunk(data, chunk_size, i),
                             http |-> h])
        /\ response' = send_post_request(h)
        /\ ui' = IF RequestFails(h) THEN Append(ui, ErrorNote("Error: request"))
                 ELSE ui
    /\ pc' = "report"
    /\ UNCHANGED <<uploaded_file, df, cleaned_data, prev_df, passes, stage, data,
                   chunk_size, i>>

(* The rest of the iteration: the report, then the next index or break.    *)
ReportChunk ==
    /\ pc = "report"
    /\ ui' = Append(ui, IF Truthy(response)
                        THEN ChunkSuccess(i + 1, num_chunks)
                        ELSE ChunkFailure(i + 1, num_chunks))
    /\ i' = IF ContinuesAfter(response) THEN i + 1 ELSE i
    /\ pc' = IF ContinuesAfter(response) THEN "send" ELSE "returned"
    /\ response' = None
    /\ UNCHANGED <<uploaded_file, df, cleaned_data, prev_df, passes, stage, data,
                   chunk_size, posted>>

(* range(num_chunks) is exhausted: the function returns.                   *)
LoopExit ==
    /\ pc = "send"
    /\ i >= num_chunks
    /\ pc' = "returned"
    /\ UNCHANGED <<uploaded_file, df, cleaned_data, prev_df, passes, stage, data,
                   chunk_size, i, response, posted, ui>>

(***************************************************************************)
(* process_uploaded_file.  A file has a name, here the pieces of the name  *)
(* with each "." a piece of its own, and a content: text the parser        *)
(* accepts, with the table it yields, or text it rejects.                  *)
(***************************************************************************)
(* file.name.split('.')[-1] *)
Extension(name) == IF name[Len(name)] = "." THEN "" ELSE name[Len(name)]

(* pd.read_csv / pd.read_json raise on content they cannot parse.          *)
ParseRaises(content) == ~content.ok

(* Variant: any extension is read as CSV.                                  *)
process_uploaded_file_AnyExtension(file) ==
    IF ~ParseRaises(file.content)
    THEN [df |-> file.content.table, error |-> FALSE]
    ELSE [df |-> None, error |-> TRUE]

(* The dataset returned, or None with the error shown, never an exception. *)
process_uploaded_file(file) ==
    IF Extension(file.name) \in {"csv", "json"} /\ ~ParseRaises(file.content)
    THEN [df |-> file.content.table, error |-> FALSE]
    ELSE [df |-> None, error |-> TRUE]

(***************************************************************************)
(* display_analysis_results: the aggregations in the order they run, each  *)
(* with the columns it looks up.  A lookup of a column the dataset lacks   *)
(* raises KeyError, which nothing catches.                                 *)
(***************************************************************************)
AggregationColumns ==
    << {"energy_source", "production_volume"},
       {"region", "sector", "consumption_volume"},
       {"energy_source", "production_volume", "consumption_volume"},
       {"country", "import_volume", "export_volume"},
       {"date", "energy_source", "price"},
       {"energy_source_type", "production_volume"},
       {"geopolitical_event", "trade_volume"} >>

NumStages == Len(AggregationColumns)

ExpectedColumns == UNION {AggregationColumns[k] : k \in 1..NumStages}

(* Variant: a lookup of a missing column yields an empty result.           *)
RaisesKeyError_Never(d, k) == FALSE

RaisesKeyError(d, k) == ~(AggregationColumns[k] \subseteq d.columns)

(* json.loads(cleaned_data.to_json(orient='records')): one record per row, *)
(* in row order, a missing cell as null.                                   *)
ToRecords(d) == d.rows

DefaultChunkSize == 500
MainChunkSize == 500

(***************************************************************************)
(* Uploads offered to main().                                              *)
(***************************************************************************)
NumericColumns ==
    {"production_volume", "consumption_volume", "import_volume", "export_volume",
     "price", "trade_volume", "date"}

(* Row k of a generated table.  Row 2 repeats row 1, and every fifth price *)
(* is missing, so that cleaning has work to do.                            *)
GenCell(c, k) ==
    LET key == IF k = 2 THEN 1 ELSE k
    IN  IF c \in NumericColumns
        THEN IF c = "price" /\ key % 5 = 0 THEN Missing ELSE Num(key, 1)
        ELSE Str(<<IF key % 2 = 0 THEN "a" ELSE "b">>)

Table(cols, n) == DataFrame(cols, [k \in 1..n |-> [c \in cols |-> GenCell(c, k)]])

ColumnSets == {ExpectedColumns} \cup {ExpectedColumns \ {c} : c \in ExpectedColumns}
SmallSizes == {0, 1, 3}
LargeSizes == {502, 1201}

Contents ==
    {[ok |-> FALSE, table |-> None]}
    \cup {[ok |-> TRUE, table |-> Table(cols, n)] : cols \in ColumnSets, n \in SmallSizes}
    \cup {[ok |-> TRUE, table |-> Table(ExpectedColumns, n)] : n \in LargeSizes}

FileNames ==
    { <<"data", ".", "csv">>, <<"data", ".", "json">>, <<"data", ".", "txt">>,
      <<"data", ".", "CSV">> }

Uploads == {None} \cup [name : FileNames, content : Contents]

(***************************************************************************)
(* main()                                                                  *)
(***************************************************************************)
Init ==
    /\ pc = "start"
    /\ uploaded_file \in Uploads
    /\ df = None
    /\ cleaned_data = None
    /\ prev_df = None
    /\ passes = 0
    /\ stage = 0
    /\ data = <<>>
    /\ chunk_size = DefaultChunkSize
    /\ i = 0
    /\ response = None
    /\ posted = <<>>
    /\ ui = <<>>

(* `if uploaded_file is not None:` is false: the run ends.                 *)
NoUpload ==
    /\ pc = "start"
    /\ uploaded_file = None
    /\ pc' = "done"
    /\ UNCHANGED <<uploaded_file, df, cleaned_data, prev_df, passes, stage, data,
                   chunk_size, i, response, posted, ui>>

(* df = process_uploaded_file(uploaded_file); `if df is not None:` and the *)
(* raw data display.                                                       *)
ProcessUploadedFile ==
    /\ pc = "start"
    /\ uploaded_file # None
    /\ LET r == process_uploaded_file(uploaded_file)
       IN  /\ df' = r.df
           /\ ui' = IF r.error
                    THEN Append(ui, ErrorNote("Unsupported file format or parse error"))
                    ELSE Append(ui, Note("info", "Total records in raw data",
                                         Len(r.df.rows), 0))
           /\ pc' = IF r.df = None THEN "done" ELSE "loaded"
    /\ UNCHANGED <<uploaded_file, cleaned_data, prev_df, passes, stage, data,
                   chunk_size, i, response, posted>>

(* cleaned_data = clean_data(df) and its display.                          *)
CleanData ==
    /\ pc = "loaded"
    /\ cleaned_data' = clean_data(df)
    /\ ui' = Append(ui, Note("info", "Total records in cleaned data",
                             Len(cleaned_data'.rows), 0))
    /\ pc' = "eda"
    /\ UNCHANGED <<uploaded_file, df, prev_df, passes, stage, data, chunk_size, i,
                   response, posted>>

(* perform_eda(cleaned_data): it returns, or a library call in it raises   *)
(* and the run is over.                                                    *)
PerformEda ==
    /\ pc = "eda"
    /\ \E raises \in BOOLEAN : pc' = IF raises THEN "aborted" ELSE "analysis"
    /\ UNCHANGED <<uploaded_file, df, cleaned_data, prev_df, passes, stage, data,
                   chunk_size, i, response, posted, ui>>

(* The next aggregation of display_analysis_results and its rendering.  It *)
(* raises when a column it looks up is missing, and may raise in rendering;*)
(* the exception is not caught and ends the run.                           *)
Aggregate ==
    /\ pc = "analysis"
    /\ \E raises \in IF RaisesKeyError(cleaned_data, stage + 1) THEN {TRUE} ELSE BOOLEAN :
        IF raises
        THEN /\ pc' = "aborted"
             /\ stage' = stage
        ELSE /\ stage' = stage + 1
             /\ pc' = IF stage + 1 = NumStages THEN "download" ELSE "analysis"
    /\ UNCHANGED <<uploaded_file, df, cleaned_data, prev_df, passes, data,
                   chunk_size, i, response, posted, ui>>

(* cleaned_data.to_csv and st.download_button *)
Download ==
    /\ pc = "download"
    /\ ui' = Append(ui, DownloadButton)
    /\ pc' = "submit"
    /\ UNCHANGED <<uploaded_file, df, cleaned_data, prev_df, passes, stage, data,
                   chunk_size, i, response, posted>>

(* json_data = ...; send_data_in_chunks(url, json_data, chunk_size=500) is *)
(* entered.                                                                *)
Submit ==
    /\ pc = "submit"
    /\ data' = ToRecords(cleaned_data)
    /\ chunk_size' = MainChunkSize
    /\ i' = 0
    /\ pc' = "send"
    /\ UNCHANGED <<uploaded_file, df, cleaned_data, prev_df, passes, stage,
                   response, posted, ui>>

(* Variant: the final notification only when no chunk failed.              *)
FinalSuccess_OnlyIfAllSubmitted ==
    /\ pc = "returned"
    /\ ui' = IF \E k \in 1..Len(ui) : ui[k].kind = "error"
             THEN ui
             ELSE Append(ui, FinalNote)
    /\ pc' = "done"
    /\ UNCHANGED <<uploaded_file, df, cleaned_data, prev_df, passes, stage, data,
                   chunk_size, i, response, posted>>

(* send_data_in_chunks has returned: st.success("Application ran ...").    *)
FinalSuccess ==
    /\ pc = "returned"
    /\ ui' = Append(ui, FinalNote)
    /\ pc' = "done"
    /\ UNCHANGED <<uploaded_file, df, cleaned_data, prev_df, passes, stage, data,
                   chunk_size, i, response, posted>>

Next ==
    \/ NoUpload
    \/ ProcessUploadedFile
    \/ CleanData
    \/ PerformEda
    \/ Aggregate
    \/ Download
    \/ Submit
    \/ SendChunk
    \/ ReportChunk
    \/ LoopExit
    \/ FinalSuccess

Spec == Init /\ [][Next]_vars

(***************************************************************************)
(* SpecClean: clean_data applied, up to MaxPasses times in a row, to any   *)
(* dataset of at most MaxRows rows over two columns.                       *)
(***************************************************************************)
CleanColumns == {"energy_source", "production_volume"}

SourceCells == {Missing, Str(<<"x">>), Str(<<"1", ".", "0">>)}
VolumeCells == {Missing, Num(1, 1), Num(2, 1), Str(<<"1", ".", "0">>), Str(<<"x">>)}

CleanRows ==
    { [c \in CleanColumns |-> IF c = "energy_source" THEN a ELSE b] :
        a \in SourceCells, b \in VolumeCells }

CleanInputs ==
    { DataFrame(CleanColumns, rows) :
        rows \in UNION {[1..n -> CleanRows] : n \in 0..MaxRows} }

InitClean ==
    /\ pc = "clean"
    /\ uploaded_file = None
    /\ df \in CleanInputs
    /\ cleaned_data = None
    /\ prev_df = None
    /\ passes = 0
    /\ stage = 0
    /\ data = <<>>
    /\ chunk_size = DefaultChunkSize
    /\ i = 0
    /\ response = None
    /\ posted = <<>>
    /\ ui = <<>>

(* df = clean_data(df) *)
CleanAgain ==
    /\ pc = "clean"
    /\ passes < MaxPasses
    /\ prev_df' = df
    /\ df' = clean_data(df)
    /\ passes' = passes + 1
    /\ UNCHANGED <<pc, uploaded_file, cleaned_data, stage, data, chunk_size, i,
                   response, posted, ui>>

NextClean == CleanAgain

SpecClean == InitClean /\ [][NextClean]_vars

(***************************************************************************)
(* SpecChunks: send_data_in_chunks(url, data, chunk_size) for any list of  *)
(* at most MaxLen records and any chunk_size in 1..MaxChunkSize.           *)
(***************************************************************************)
Records == {[c \in CleanColumns |-> b] : b \in {Num(1, 1), Num(2, 1)}}

InitChunks ==
    /\ pc = "send"
    /\ uploaded_file = None
    /\ df = None
    /\ cleaned_data = None
    /\ prev_df = None
    /\ passes = 0
    /\ stage = 0
    /\ data \in UNION {[1..n -> Records] : n \in 0..MaxLen}
    /\ chunk_size \in 1..MaxChunkSize
    /\ i = 0
    /\ response = None
    /\ posted = <<>>
    /\ ui = <<>>

NextChunks ==
    \/ SendChunk
    \/ ReportChunk
    \/ LoopExit

SpecChunks == InitChunks /\ [][NextChunks]_vars

(***************************************************************************)
(* Properties.                                                             *)
(***************************************************************************)
IsChunkNote(e) == e.of > 0

(* The per-chunk reports shown so far, in order.                           *)
ChunkReports == SelectSeq(ui, IsChunkNote)

AllReportedSuccess == \A k \in 1..Len(ChunkReports) : ChunkReports[k].kind = "success"

RECURSIVE ConcatChunks(_)
ConcatChunks(ps) ==
    IF ps = <<>> THEN <<>>
    ELSE ConcatChunks(SubSeq(ps, 1, Len(ps) - 1)) \o ps[Len(ps)].chunk

(* ceil(n / size), from its definition.                                    *)
CeilDiv(n, size) == CHOOSE q \in 0..n : q * size >= n /\ (q - 1) * size < n

(* C1: the chunks POSTed are consecutive slices of the record list, each   *)
(* of at most chunk_size records and only the final one of fewer; when the *)
(* function has returned with every POST reported a success, there were    *)
(* ceil(N / chunk_size) chunks and their concatenation in sending order is *)
(* the record list.                                                        *)
C1_ChunksPartitionRecords ==
    /\ \A k \in 1..Len(posted) :
        /\ Len(posted[k].chunk) <= chunk_size
        /\ Len(posted[k].chunk) >= 1
        /\ \A j \in 1..Len(posted[k].chunk) :
             posted[k].chunk[j] = data[(k - 1) * chunk_size + j]
        /\ k < CeilDiv(Len(data), chunk_size) => Len(posted[k].chunk) = chunk_size
    /\ (pc = "returned" /\ AllReportedSuccess) =>
        /\ Len(posted) = CeilDiv(Len(data), chunk_size)
        /\ ConcatChunks(posted) = data

(* A run in which every POST succeeded and the final chunk is short.       *)
C1_Witness ==
    /\ pc = "returned"
    /\ AllReportedSuccess
    /\ Len(posted) >= 2
    /\ Len(posted[Len(posted)].chunk) < chunk_size

HttpFailed(h) ==
    \/ h.kind \in {"connection_error", "timeout"}
    \/ h.kind = "response" /\ ~(200 <= h.status /\ h.status < 300)

(* C2: once the POST of a chunk has failed (a status outside 2xx, a        *)
(* network error or a timeout), a failure is reported for that chunk and   *)
(* no later chunk is POSTed.                                               *)
C2_FailFastOnAnyNon2xx ==
    \A k \in 1..Len(posted) :
        HttpFailed(posted[k].http) =>
            /\ Len(posted) = k
            /\ k <= Len(ChunkReports) => ChunkReports[k] = ChunkFailure(k, num_chunks)

(* C3: a chunk whose POST received a 2xx response, whatever its body, is   *)
(* reported as submitted successfully and the loop goes on.                *)
C3_Any2xxReportedSuccess ==
    \A k \in 1..Len(ChunkReports) :
        (/\ posted[k].http.kind = "response"
         /\ 200 <= posted[k].http.status
         /\ posted[k].http.status < 300) =>
            /\ ChunkReports[k] = ChunkSuccess(k, num_chunks)
            /\ i >= k

(* C4: cleaning is idempotent: a second clean_data returns its argument.   *)
C4_CleanIdempotent == passes = 2 => df = prev_df

NoDuplicateRows(rows) ==
    \A j, k \in 1..Len(rows) : j # k => rows[j] # rows[k]

(* C5: the cleaned dataset has no more rows than the input and no two rows *)
(* equal on every column.                                                  *)
C5_NoMoreRowsNoDuplicates ==
    passes >= 1 =>
        /\ Len(df.rows) <= Len(prev_df.rows)
        /\ NoDuplicateRows(df.rows)

(* C6 as claimed: after clean_data no numeric column holds a missing       *)
(* value, whatever the input.                                              *)
C6_NoMissingInAnyNumericColumn ==
    passes >= 1 =>
        \A c \in df.columns :
            IsNumericColumn(Column(df.rows, c)) =>
                \A k \in 1..Len(df.rows) : ~IsMissing(df.rows[k][c])

RECURSIVE SumOfPresent(_)
SumOfPresent(col) ==
    IF col = <<>> THEN Num(0, 1)
    ELSE LET rest == SumOfPresent(SubSeq(col, 1, Len(col) - 1))
             last == col[Len(col)]
         IN  IF IsNum(last)
             THEN Num(rest.n * last.d + last.n * rest.d, rest.d * last.d)
             ELSE rest

(* m is the arithmetic mean of the numbers of col: m * count = their sum.  *)
IsMeanOf(m, col) ==
    LET total == SumOfPresent(col)
        count == Cardinality({k \in 1..Len(col) : IsNum(col[k])})
    IN  /\ IsNum(m)
        /\ m.n * count * total.d = total.n * m.d

(* C6, amended: after clean_data a numeric column either holds no missing  *)
(* value or holds nothing else (its mean was undefined); and where no row  *)
(* was dropped, a numeric column that had a number keeps its numbers, and  *)
(* each cell that was missing holds the mean of the numbers of the column. *)
C6_MissingFilledWithMeanWhenDefined ==
    passes >= 1 =>
        \A c \in df.columns :
            LET out == Column(df.rows, c)
                inp == Column(prev_df.rows, c)
            IN  IsNumericColumn(out) =>
                    /\ \/ \A k \in 1..Len(out) : ~IsMissing(out[k])
                       \/ \A k \in 1..Len(out) : IsMissing(out[k])
                    /\ (Len(out) = Len(inp) /\ \E k \in 1..Len(out) : IsNum(out[k])) =>
                        \A k \in 1..Len(out) :
                            IF IsMissing(inp[k])
                            THEN IsMeanOf(out[k], [j \in 1..Len(inp) |-> CoerceValue(inp[j])])
                            ELSE out[k] = CoerceValue(inp[k])

(* The column [1, 2, missing] has become [1, 2, 1.5].                      *)
C6_Witness ==
    /\ passes = 1
    /\ Column(prev_df.rows, "production_volume") = <<Num(1, 1), Num(2, 1), Missing>>
    /\ Column(df.rows, "production_volume") = <<Num(1, 1), Num(2, 1), Num(3, 2)>>

IngestFails(file) ==
    \/ file.name[Len(file.name)] \notin {"csv", "json"}
    \/ ~file.content.ok

(* C7: when ingestion fails, one error is shown, there is no dataset, the  *)
(* run ends without an exception, and nothing downstream happens: no       *)
(* cleaning, no analysis, no download button, no POST.                     *)
C7_IngestFailureHaltsPipeline ==
    (pc # "start" /\ uploaded_file # None /\ IngestFails(uploaded_file)) =>
        /\ pc = "done"
        /\ df = None
        /\ Len(ui) = 1 /\ ui[1].kind = "error"
        /\ cleaned_data = None
        /\ stage = 0
        /\ posted = <<>>

(* An upload with parseable content and an unsupported extension, after    *)
(* the run.                                                                *)
C7_Witness ==
    /\ pc = "done"
    /\ uploaded_file # None
    /\ uploaded_file.content.ok
    /\ uploaded_file.name[Len(uploaded_file.name)] = "txt"
    /\ df = None

(* C8: chunks are POSTed in increasing index order, each once; a chunk is  *)
(* POSTed only when every earlier chunk has been reported a success; each  *)
(* POSTed chunk has exactly one report once its iteration is over.         *)
C8_SequentialNoRetry ==
    /\ \A k \in 1..Len(posted) : posted[k].index = k - 1
    /\ Len(ChunkReports) = Len(posted) - (IF pc = "report" THEN 1 ELSE 0)
    /\ \A k \in 1..Len(ChunkReports) : ChunkReports[k].n = k
    /\ \A k \in 2..Len(posted) : ChunkReports[k - 1].kind = "success"

(* A run that POSTed two chunks, the second of which failed, with a third  *)
(* chunk left.                                                             *)
C8_Witness ==
    /\ pc = "returned"
    /\ Len(posted) = 2
    /\ ChunkReports[2].kind = "error"
    /\ num_chunks >= 3

Contains(seq, e) == \E k \in 1..Len(seq) : seq[k] = e

(* C9: a chunk is POSTed only after ingestion, cleaning and all the        *)
(* aggregations have completed; an aggregation that looks up a missing     *)
(* column is never completed, the run ends there in the exception, and     *)
(* nothing is POSTed.                                                      *)
C9_SubmissionIsLastStage ==
    /\ posted # <<>> =>
        /\ df # None
        /\ cleaned_data # None
        /\ stage = NumStages
        /\ Contains(ui, DownloadButton)
    /\ pc = "aborted" => posted = <<>> /\ ~Contains(ui, FinalNote)
    /\ cleaned_data # None =>
        \A k \in 1..NumStages :
            ~(AggregationColumns[k] \subseteq cleaned_data.columns) =>
                /\ stage < k
                /\ posted = <<>>
                /\ pc \in {"eda", "analysis", "aborted"}
                /\ (pc = "analysis" /\ stage = k - 1) => ~ENABLED (Aggregate /\ pc' # "aborted")

(* A run that completed an aggregation and ended in the next one on a      *)
(* missing column.                                                         *)
C9_Witness ==
    /\ pc = "aborted"
    /\ stage >= 1
    /\ ~(AggregationColumns[stage + 1] \subseteq cleaned_data.columns)

(* C10: a run that loaded a dataset and completed the analysis ends with   *)
(* the final notification, emitted once, last, after send_data_in_chunks   *)
(* has returned, whatever was reported for the chunks.                     *)
C10_FinalNoteAfterSubmission ==
    /\ (pc = "done" /\ df # None) => ui[Len(ui)] = FinalNote
    /\ Contains(ui, FinalNote) =>
        /\ pc = "done"
        /\ stage = NumStages
        /\ \A k \in 1..(Len(ui) - 1) : ui[k] # FinalNote
    /\ stage = NumStages => pc # "aborted"
    /\ (stage = NumStages /\ pc # "done") => ENABLED Next

(* 1200 records in chunks of 500: the second chunk failed, the third was   *)
(* never sent, and the final notification is shown.                        *)
C10_Witness ==
    /\ pc = "done"
    /\ Len(data) = 1200
    /\ Len(posted) = 2
    /\ ChunkReports[2] = ChunkFailure(2, 3)
    /\ ui[Len(ui)] = FinalNote

====
